---- MODULE Spec2Model ----
(***************************************************************************)
(* Request-handoff and streaming-coordination layer of the dynamo workers. *)
(*                                                                         *)
(* SGLang backend: DecodeWorkerHandler (aggregated and disaggregated       *)
(* decode), PrefillWorkerHandler, and the cancellation monitor of          *)
(* BaseWorkerHandler.  TensorRT-LLM backend: HandlerBase.generate_locally. *)
(*                                                                         *)
(* Every handler invocation h is one asyncio task; the code between two    *)
(* suspension points (await / yield) runs atomically and is one action.    *)
(* Token ids and characters are never inspected by the handlers, so the    *)
(* k-th generated token (character) is written k: a cumulative engine      *)
(* output of length n is <<1, ..., n>>.                                    *)
(***************************************************************************)
EXTENDS Integers, Sequences, FiniteSets, TLC

\* ----------------------------------------------------------------- bounds
NumInvs == 2      \* handler invocations (requests in flight)
MaxLen == 3       \* longest cumulative engine output
MaxGrow == 2      \* most tokens one snapshot adds
MaxSnaps == 3     \* most snapshots one engine call streams
MaxRoom == 1      \* bootstrap rooms are drawn from 0 .. MaxRoom
ReqSnaps == 1     \* snapshots streamed where the requests, not the streams, vary
MaxTime == 4      \* KV transfer times are drawn from 0 .. MaxTime seconds

Invs == 1 .. NumInvs

\* Python's None where the value is otherwise a string.  An optional number or
\* flag is a sequence: <<>> is None, <<v>> is the value v.  A key a dict lacks
\* is a field the record lacks.
None == "None"

\* The engine's finish_reason types (the handlers copy them, never read them).
FinishTypes == {"stop", "length"}

\* ------------------------------------------------------------------ state
VARIABLES
  cfg,      \* per invocation: the handler's configuration, the request and context passed in
  ctx,      \* per context: "live", "stopped" or "killed"
  pc,       \* per invocation: where its coroutine is suspended
  gen,      \* per invocation: the generate() stream as its caller sees it
  req,      \* per invocation: the request dict object, as it is now
  boot,     \* per invocation: the items read from the paired prefill stream
  call,     \* per invocation: the arguments of the engine generate calls issued
  eng,      \* per invocation: progress of the engine's result stream
  sofar,    \* per invocation: num_output_tokens_so_far / count
  out,      \* per invocation: the items yielded so far, in order
  mon,      \* per invocation: its cancellation monitor task
  aborts,   \* per invocation: the abort_request calls its monitor made
  err,      \* per invocation: the exception that ended it, or None
  shared    \* the trtllm handler's first_generation flag and what its publisher was asked

vars == <<cfg, ctx, pc, gen, req, boot, call, eng, sofar, out, mon, aborts, err, shared>>

\* ---------------------------------------------------------------- helpers
Min(a, b) == IF a < b THEN a ELSE b

\* The cumulative output of length n.
Toks(n) == [i \in 1 .. n |-> i]

\* Python's s[k:].
Slice(s, k) == SubSeq(s, k + 1, Len(s))

RECURSIVE Concat(_)
Concat(ss) == IF ss = <<>> THEN <<>> ELSE Head(ss) \o Concat(Tail(ss))

\* Python truthiness of an optional number.
TruthyNum(o) == o # <<>> /\ o[1] # 0

\* Python truthiness of an optional flag.
TruthyFlag(o) == o # <<>> /\ o[1]

\* The dict without keys.
EmptyDict == [k \in {} |-> <<>>]

\* The engine-internal request id sglang gives the engine call of invocation h.
Rid(h) == "rid" \o ToString(h)

NoMonitor == [st |-> "none", rid |-> None, cancel |-> FALSE, pre |-> FALSE, made |-> 0]
\* An engine call that has streamed nothing yet and streams at most k snapshots.
NoEngine(k) ==
  [n |-> 0, snaps |-> 0, fin |-> FALSE, limit |-> k, seen_id |-> FALSE,
   empty |-> FALSE, lacks |-> FALSE, finish_reason |-> None, stop_reason |-> None]

\* A check that looks at is_killed() only.
IsCancelled_KilledOnly(h) == cfg[h].context # <<>> /\ ctx[cfg[h].context[1]] = "killed"

\* `context and (context.is_stopped() or context.is_killed())`
IsCancelled(h) == cfg[h].context # <<>> /\ ctx[cfg[h].context[1]] # "live"

\* A prefill handler whose results go through the token loop, which yields.
Kind_PrefillYields(h) ==
  IF cfg[h].handler = "sgl_prefill" THEN "token"
  ELSE IF cfg[h].skip_tokenizer_init THEN "token" ELSE "text"

\* Which loop consumes the engine stream of invocation h.
Kind(h) ==
  IF cfg[h].handler = "sgl_prefill" THEN "consume"
  ELSE IF cfg[h].skip_tokenizer_init THEN "token" ELSE "text"

\* asyncio.Task.done()
TaskDone(m) == m.st \in {"done", "cancelled", "failed"}

\* ------------------------------------------------------- the sglang engine
\* The snapshots the engine call of invocation h may stream next: cumulative
\* (each extends the previous one), meta_info with the request id, with id None
\* or without the key, finished or not, and in token mode with or without
\* output_ids.  text stands for the engine's cumulative output in both modes;
\* the token loop never reads it.
MetaInfos(h) ==
  { [id |-> i, finish_reason |-> f] : i \in {Rid(h), None}, f \in {None} \cup FinishTypes }
  \cup { [finish_reason |-> f] : f \in {None} \cup FinishTypes }

SglSnapshots(h) ==
  LET lens == eng[h].n .. Min(eng[h].n + MaxGrow, MaxLen)
  IN  { [meta_info |-> m, output_ids |-> Toks(n), text |-> Toks(n)] :
          m \in MetaInfos(h), n \in lens }
      \cup (IF Kind(h) = "token"
              THEN { [meta_info |-> m, text |-> Toks(n)] : m \in MetaInfos(h), n \in lens }
              ELSE {})

\* meta_info.get("id")
MetaId(res) == IF "id" \in DOMAIN res.meta_info THEN res.meta_info.id ELSE None

EngineAfter(e, res) ==
  [e EXCEPT !.n = Len(res.text), !.snaps = @ + 1,
            !.fin = res.meta_info.finish_reason # None,
            !.seen_id = @ \/ MetaId(res) # None,
            !.lacks = ("output_ids" \notin DOMAIN res),
            !.finish_reason = res.meta_info.finish_reason]

\* A start test without `cancellation_task is None`.
StartsMonitor_EverySnapshot(h, res) ==
  /\ cfg[h].context # <<>>
  /\ MetaId(res) # None

\* ------------------------------------------- cancellation monitor (sglang)
\* `if context and cancellation_task is None: ... if sglang_request_id:`
StartsMonitor(h, res) ==
  /\ cfg[h].context # <<>>
  /\ mon[h].st = "none"
  /\ MetaId(res) # None

\* _cancellation_monitor.__aenter__: asyncio.create_task(_handle_cancellation(...)).
\* The task is scheduled, it has not run yet.  pre records whether the context
\* had already signalled when the id became known.
CreatedMonitor(h, res) ==
  [st |-> "created", rid |-> MetaId(res), cancel |-> FALSE, pre |-> IsCancelled(h),
   made |-> mon[h].made + 1]

MonitorAfterSnapshot(h, res) ==
  IF StartsMonitor(h, res) THEN CreatedMonitor(h, res) ELSE mon[h]

\* The code after the loop, up to its first suspension: with a monitor, __aexit__
\* cancels a task that is not done and awaits it.
CleanupMonitor(m) ==
  IF m.st = "none" \/ TaskDone(m) THEN m ELSE [m EXCEPT !.cancel = TRUE]

CleanupPc(m) ==
  IF m.st = "none" \/ TaskDone(m) THEN "done" ELSE "join"

\* The generate() stream ends when the coroutine that feeds it ends; the
\* prefill handler's generate() has returned before _consume_results runs.
GenAfter(g, p) ==
  IF g # "running" THEN g
  ELSE CASE p = "done" -> "returned"
         [] p = "raised" -> "raised"
         [] p = "closed" -> "closed"
         [] OTHER -> g

AfterLoop(h, m) ==
  /\ mon' = [mon EXCEPT ![h] = CleanupMonitor(m)]
  /\ pc' = [pc EXCEPT ![h] = CleanupPc(m)]
  /\ gen' = [gen EXCEPT ![h] = GenAfter(@, CleanupPc(m))]

\* ---------------------------------------------------------- stream chunker
\* _process_token_stream: the chunk for a snapshot, the error it raises instead,
\* and the new num_output_tokens_so_far.
TokenDelta(output_ids, n) == Slice(output_ids, n)

TokenRaises(res) ==
  res.meta_info.finish_reason = None /\ "output_ids" \notin DOMAIN res

TokenChunk(res, n) ==
  IF res.meta_info.finish_reason # None
    THEN [token_ids |-> <<>>, finish_reason |-> res.meta_info.finish_reason]
    ELSE [token_ids |-> TokenDelta(res.output_ids, n)]

TokenCount(res, n) ==
  IF res.meta_info.finish_reason # None THEN n ELSE Len(res.output_ids)

\* _process_text_stream: res["meta_info"]["id"] raises KeyError without the key.
TextDelta(text, n) == Slice(text, n)

TextRaises(res) == "id" \notin DOMAIN res.meta_info

TextChunk(res, n) ==
  [id |-> res.meta_info.id,
   content |-> TextDelta(res.text, n),
   finish_reason |-> res.meta_info.finish_reason]

\* ------------------------------------------------- requests and parameters
\* stop_conditions.max_tokens as the caller may supply it.
MaxTokensChoices == {<<>>, <<0>>, <<1>>, <<5>>}

\* A request of the token-based format and of the OpenAI format, with
\* max_tokens drawn from ms.
SglRequests(skip_tokenizer_init, ms) ==
  IF skip_tokenizer_init
    THEN { [stop_conditions |-> [max_tokens |-> m]] : m \in ms }
    ELSE { [max_tokens |-> m] : m \in ms }

\* DecodeWorkerHandler._build_sampling_params: the entries that are None are
\* dropped (max_new_tokens stands for all of them; <<>> is the dropped key).
BuildSamplingParams(skip_tokenizer_init, request) ==
  [max_new_tokens |->
     IF skip_tokenizer_init THEN request.stop_conditions.max_tokens ELSE request.max_tokens]

\* DisaggPreprocessedRequest(request=..., sampling_params=...).model_dump()
DisaggPreprocessedRequest(request, sampling_params) ==
  [request |-> request, sampling_params |-> sampling_params]

\* ------------------------------------------------------- handler instances
Unused == [handler |-> "none", entry |-> FALSE, context |-> <<>>]

\* A DecodeWorkerHandler invoked by the runtime as invocation h.
SglDecodeCfgs(h, modes, ms) ==
  { [handler |-> "sgl_decode", entry |-> TRUE, serving_mode |-> m,
     skip_tokenizer_init |-> s, tokenizer_manager |-> t, context |-> c,
     peer |-> h + 1, request |-> r] :
      m \in modes, s \in BOOLEAN, t \in BOOLEAN, c \in {<<>>, <<h>>},
      r \in SglRequests(TRUE, ms) \cup SglRequests(FALSE, ms) }

\* _get_input_param reads engine.tokenizer_manager unless skip_tokenizer_init.
SglDecodeOk(c) ==
  /\ c.request \in SglRequests(c.skip_tokenizer_init, MaxTokensChoices)
  /\ (~c.skip_tokenizer_init => c.tokenizer_manager)

\* A PrefillWorkerHandler: invoked by the runtime (entry) or through the
\* prefill_client of a decode handler.  __init__ reads engine.tokenizer_manager.
SglPrefillCfgs(h, entry, ms) ==
  { [handler |-> "sgl_prefill", entry |-> entry, tokenizer_manager |-> TRUE,
     context |-> c, bootstrap_host |-> "host", bootstrap_port |-> "port",
     request |-> DisaggPreprocessedRequest(r, BuildSamplingParams(TRUE, r))] :
      c \in {<<>>, <<h>>}, r \in SglRequests(TRUE, ms) }

\* config.default_sampling_params (temperature in tenths).
DefaultSamplingParams ==
  [max_tokens |-> <<8>>, temperature |-> <<7>>, top_k |-> <<4>>,
   ignore_eos |-> <<TRUE>>, min_tokens |-> <<2>>]

\* HandlerBase.__init__: first_generation = True, default_sampling_params is the
\* configured object; the publisher has not been started and has published
\* nothing.  early records a publish_kv_perf call made before any
\* publisher.start().
NoShared ==
  [first_generation |-> TRUE, starts |-> 0, kv |-> <<>>, early |-> FALSE,
   default_sampling_params |-> DefaultSamplingParams]

\* The state before the first step; the engine call of invocation h streams at
\* most limit[h] snapshots.
InitState(limit) ==
  /\ shared = NoShared
  /\ ctx = [c \in Invs |-> "live"]
  /\ pc = [h \in Invs |-> IF cfg[h].entry THEN "start" ELSE "idle"]
  /\ gen = [h \in Invs |-> IF cfg[h].entry THEN "running" ELSE "idle"]
  /\ req = [h \in Invs |-> IF cfg[h].entry THEN <<cfg[h].request>> ELSE <<>>]
  /\ boot = [h \in Invs |-> <<>>]
  /\ call = [h \in Invs |-> <<>>]
  /\ eng = [h \in Invs |-> NoEngine(limit[h])]
  /\ sofar = [h \in Invs |-> 0]
  /\ out = [h \in Invs |-> <<>>]
  /\ mon = [h \in Invs |-> NoMonitor]
  /\ aborts = [h \in Invs |-> <<>>]
  /\ err = [h \in Invs |-> None]

\* One sglang handler invoked by the runtime: a decode handler in aggregated
\* mode, or a prefill handler.  The stream loops do not depend on the sampling
\* parameters: the request leaves max_tokens unset.
InitSg ==
  /\ \E c \in SglDecodeCfgs(1, {"AGGREGATED"}, {<<>>}) \cup SglPrefillCfgs(1, TRUE, {<<>>}) :
       /\ c.handler = "sgl_decode" => SglDecodeOk(c)
       /\ cfg = [h \in Invs |-> IF h = 1 THEN c ELSE Unused]
  /\ InitState([h \in Invs |-> MaxSnaps])

\* ------------------------------------------------ the cancellation context
\* The transport layer signals stop or kill on a context, at any time.
Cancel(c) ==
  /\ \E h \in Invs : cfg[h].context = <<c>>
  /\ ctx[c] = "live"
  /\ \E s \in {"stopped", "killed"} : ctx' = [ctx EXCEPT ![c] = s]
  /\ UNCHANGED <<cfg, shared, pc, gen, req, boot, call, eng, sofar, out, mon, aborts, err>>

\* --------------------------------------------- DecodeWorkerHandler.generate
\* engine.async_generate(**input_param, sampling_params=..., stream=True)
AggregatedCall(sampling_params) ==
  [sampling_params |-> sampling_params, stream |-> TRUE]

\* generate() up to its first suspension.  In aggregated mode the engine call is
\* issued; in decode mode the paired prefill handler is called through
\* prefill_client and its stream awaited.
DecodeGenerate(h) ==
  /\ cfg[h].handler = "sgl_decode"
  /\ pc[h] = "start"
  /\ LET sampling_params == BuildSamplingParams(cfg[h].skip_tokenizer_init, req[h][1])
         p == cfg[h].peer
     IN  IF cfg[h].serving_mode = "DECODE"
           THEN /\ pc' = [pc EXCEPT ![h] = "await_bootstrap", ![p] = "start"]
                /\ gen' = [gen EXCEPT ![p] = "running"]
                /\ req' = [req EXCEPT ![p] =
                             <<DisaggPreprocessedRequest(req[h][1], sampling_params)>>]
                /\ UNCHANGED call
           ELSE /\ pc' = [pc EXCEPT ![h] = "await_next"]
                /\ call' = [call EXCEPT ![h] = Append(@, AggregatedCall(sampling_params))]
                /\ UNCHANGED <<gen, req>>
  /\ UNCHANGED <<cfg, shared, ctx, boot, eng, sofar, out, mon, aborts, err>>

\* ------------------------ DecodeWorkerHandler.generate, disaggregated decode
\* An engine call that does not take the room from the item read.
DecodeCall_FixedRoom(sampling_params, bootstrap_info) ==
  [sampling_params |-> sampling_params, stream |-> TRUE,
   bootstrap_host |-> bootstrap_info.bootstrap_host,
   bootstrap_port |-> bootstrap_info.bootstrap_port,
   bootstrap_room |-> 0]

\* engine.async_generate(..., stream=True, bootstrap_host=bootstrap_info[...], ...)
DecodeCall(sampling_params, bootstrap_info) ==
  [sampling_params |-> sampling_params, stream |-> TRUE,
   bootstrap_host |-> bootstrap_info.bootstrap_host,
   bootstrap_port |-> bootstrap_info.bootstrap_port,
   bootstrap_room |-> bootstrap_info.bootstrap_room]

\* The steps after the read without the check of the context.
AfterBootstrap_NoCancelCheck(h, info) ==
  IF info = <<>>
    THEN /\ pc' = [pc EXCEPT ![h] = "raised"]
         /\ gen' = [gen EXCEPT ![h] = "raised"]
         /\ err' = [err EXCEPT ![h] = "RuntimeError"]
         /\ UNCHANGED call
    ELSE /\ pc' = [pc EXCEPT ![h] = "await_next"]
         /\ call' = [call EXCEPT ![h] = Append(@, DecodeCall(
               BuildSamplingParams(cfg[h].skip_tokenizer_init, req[h][1]), info[1]))]
         /\ UNCHANGED <<gen, err>>

\* What follows the read of the prefill stream, up to the next suspension:
\* return when the context has signalled, raise without bootstrap info, else
\* issue the local engine call.
AfterBootstrap(h, info) ==
  IF IsCancelled(h)
    THEN /\ pc' = [pc EXCEPT ![h] = "done"]
         /\ gen' = [gen EXCEPT ![h] = "returned"]
         /\ UNCHANGED <<call, err>>
    ELSE IF info = <<>>
      THEN /\ pc' = [pc EXCEPT ![h] = "raised"]
           /\ gen' = [gen EXCEPT ![h] = "raised"]
           /\ err' = [err EXCEPT ![h] = "RuntimeError"]
           /\ UNCHANGED call
      ELSE /\ pc' = [pc EXCEPT ![h] = "await_next"]
           /\ call' = [call EXCEPT ![h] = Append(@, DecodeCall(
                 BuildSamplingParams(cfg[h].skip_tokenizer_init, req[h][1]), info[1]))]
           /\ UNCHANGED <<gen, err>>

\* `async for info in prefill_stream: bootstrap_info = info.data(); break`: the
\* first item the paired prefill handler yielded arrives.
DecodeBootstrap(h) ==
  /\ cfg[h].handler = "sgl_decode"
  /\ pc[h] = "await_bootstrap"
  /\ out[cfg[h].peer] # <<>>
  /\ boot' = [boot EXCEPT ![h] = Append(@, out[cfg[h].peer][1])]
  /\ AfterBootstrap(h, <<out[cfg[h].peer][1]>>)
  /\ UNCHANGED <<cfg, shared, ctx, req, eng, sofar, out, mon, aborts>>

\* The prefill stream ends without an item: the prefill worker went away before
\* its handler ran.
DecodeNoBootstrap(h) ==
  /\ cfg[h].handler = "sgl_decode"
  /\ pc[h] = "await_bootstrap"
  /\ pc[cfg[h].peer] = "start"
  /\ IF IsCancelled(h)
       THEN /\ pc' = [pc EXCEPT ![h] = "done", ![cfg[h].peer] = "lost"]
            /\ gen' = [gen EXCEPT ![h] = "returned", ![cfg[h].peer] = "lost"]
            /\ UNCHANGED err
       ELSE /\ pc' = [pc EXCEPT ![h] = "raised", ![cfg[h].peer] = "lost"]
            /\ gen' = [gen EXCEPT ![h] = "raised", ![cfg[h].peer] = "lost"]
            /\ err' = [err EXCEPT ![h] = "RuntimeError"]
  /\ UNCHANGED <<cfg, shared, ctx, req, boot, call, eng, sofar, out, mon, aborts>>

\* -------------------------------------------- PrefillWorkerHandler.generate
BootstrapInfo(h, room) ==
  [bootstrap_host |-> cfg[h].bootstrap_host,
   bootstrap_port |-> cfg[h].bootstrap_port,
   bootstrap_room |-> room]

\* generate() up to `yield bootstrap_info`: the room is random.randint(0, 2**63 - 1).
PrefillGenerate(h) ==
  /\ cfg[h].handler = "sgl_prefill"
  /\ pc[h] = "start"
  /\ \E room \in 0 .. MaxRoom :
       out' = [out EXCEPT ![h] = Append(@, BootstrapInfo(h, room))]
  /\ pc' = [pc EXCEPT ![h] = "yield_bootstrap"]
  /\ UNCHANGED <<cfg, shared, ctx, gen, req, boot, call, eng, sofar, mon, aborts, err>>

\* An engine call that takes a room other than the one yielded.
PrefillCall_OtherRoom(h, request, info) ==
  [sampling_params |-> request.sampling_params, stream |-> TRUE,
   bootstrap_host |-> cfg[h].bootstrap_host,
   bootstrap_port |-> cfg[h].bootstrap_port,
   bootstrap_room |-> (info.bootstrap_room + 1) % (MaxRoom + 1)]

\* engine.async_generate(..., sampling_params=request["sampling_params"], stream=True,
\* bootstrap_host=..., bootstrap_port=..., bootstrap_room=bootstrap_room)
PrefillCall(h, request, info) ==
  [sampling_params |-> request.sampling_params, stream |-> TRUE,
   bootstrap_host |-> cfg[h].bootstrap_host,
   bootstrap_port |-> cfg[h].bootstrap_port,
   bootstrap_room |-> info.bootstrap_room]

\* A resumption that issues the engine call and stays at the yield.
PrefillResume_Reissues(h) ==
  /\ cfg[h].handler = "sgl_prefill"
  /\ pc[h] = "yield_bootstrap"
  /\ call' = [call EXCEPT ![h] = Append(@, PrefillCall(h, req[h][1], out[h][1]))]
  /\ UNCHANGED <<cfg, shared, ctx, pc, gen, req, boot, eng, sofar, out, mon, aborts, err>>

\* The caller asks for the next item: the engine call is issued,
\* _consume_results is spawned with asyncio.create_task, and generate() returns.
PrefillResume(h) ==
  /\ cfg[h].handler = "sgl_prefill"
  /\ pc[h] = "yield_bootstrap"
  /\ call' = [call EXCEPT ![h] = Append(@, PrefillCall(h, req[h][1], out[h][1]))]
  /\ pc' = [pc EXCEPT ![h] = "await_next"]
  /\ gen' = [gen EXCEPT ![h] = "returned"]
  /\ UNCHANGED <<cfg, shared, ctx, req, boot, eng, sofar, out, mon, aborts, err>>

\* The caller closes the stream at `yield bootstrap_info`: GeneratorExit.
PrefillClose(h) ==
  /\ cfg[h].handler = "sgl_prefill"
  /\ pc[h] = "yield_bootstrap"
  /\ pc' = [pc EXCEPT ![h] = "closed"]
  /\ gen' = [gen EXCEPT ![h] = "closed"]
  /\ UNCHANGED <<cfg, shared, ctx, req, boot, call, eng, sofar, out, mon, aborts, err>>

\* ----------------- _process_token_stream, _process_text_stream, _consume_results
LoopRaises(h, res) ==
  IF Kind(h) = "token" THEN TokenRaises(res) ELSE TextRaises(res)

LoopError(h) == IF Kind(h) = "token" THEN "ValueError" ELSE "KeyError"

LoopChunk(h, res) ==
  IF Kind(h) = "token" THEN TokenChunk(res, sofar[h]) ELSE TextChunk(res, sofar[h])

\* The token loop updates its count before the yield, the text loop after it.
LoopCount(h, res) ==
  IF Kind(h) = "token" THEN TokenCount(res, sofar[h]) ELSE sofar[h]

\* One iteration of `async for res in stream_source`, from the arrival of a
\* snapshot to the next suspension: the yield, the next snapshot (the prefill
\* consumer yields nothing), the await in the cleanup after a break, or the end.
StreamRecv(h) ==
  /\ cfg[h].handler \in {"sgl_decode", "sgl_prefill"}
  /\ pc[h] = "await_next"
  /\ ~eng[h].fin
  /\ eng[h].snaps < eng[h].limit
  /\ \E res \in SglSnapshots(h) :
       LET m == MonitorAfterSnapshot(h, res) IN
       /\ eng' = [eng EXCEPT ![h] = EngineAfter(@, res)]
       /\ IF IsCancelled(h)
            THEN /\ AfterLoop(h, m)
                 /\ UNCHANGED <<sofar, out, err>>
            ELSE IF Kind(h) = "consume"
              THEN /\ mon' = [mon EXCEPT ![h] = m]
                   /\ UNCHANGED <<pc, gen, sofar, out, err>>
              ELSE IF LoopRaises(h, res)
                THEN /\ mon' = [mon EXCEPT ![h] = m]
                     /\ pc' = [pc EXCEPT ![h] = "raised"]
                     /\ gen' = [gen EXCEPT ![h] = "raised"]
                     /\ err' = [err EXCEPT ![h] = LoopError(h)]
                     /\ UNCHANGED <<sofar, out>>
                ELSE /\ mon' = [mon EXCEPT ![h] = m]
                     /\ out' = [out EXCEPT ![h] = Append(@, LoopChunk(h, res))]
                     /\ sofar' = [sofar EXCEPT ![h] = LoopCount(h, res)]
                     /\ pc' = [pc EXCEPT ![h] = "yield"]
                     /\ UNCHANGED <<gen, err>>
  /\ UNCHANGED <<cfg, shared, ctx, req, boot, call, aborts>>

\* The engine stream ends after its finished snapshot: the loop ends.
StreamEnd(h) ==
  /\ cfg[h].handler \in {"sgl_decode", "sgl_prefill"}
  /\ pc[h] = "await_next"
  /\ eng[h].fin
  /\ AfterLoop(h, mon[h])
  /\ UNCHANGED <<cfg, shared, ctx, req, boot, call, eng, sofar, out, aborts, err>>

\* The consumer asks for the next chunk; the text loop now does count = next_count.
CountAfterYield_Stale(h) == sofar[h]

CountAfterYield(h) == IF Kind(h) = "text" THEN eng[h].n ELSE sofar[h]

StreamResume(h) ==
  /\ cfg[h].handler = "sgl_decode"
  /\ pc[h] = "yield"
  /\ sofar' = [sofar EXCEPT ![h] = CountAfterYield(h)]
  /\ pc' = [pc EXCEPT ![h] = "await_next"]
  /\ UNCHANGED <<cfg, shared, ctx, gen, req, boot, call, eng, out, mon, aborts, err>>

\* The consumer closes the stream at the yield: GeneratorExit leaves the loop
\* and the function, past the cleanup that follows the loop.
StreamClose(h) ==
  /\ cfg[h].handler = "sgl_decode"
  /\ pc[h] = "yield"
  /\ pc' = [pc EXCEPT ![h] = "closed"]
  /\ gen' = [gen EXCEPT ![h] = "closed"]
  /\ UNCHANGED <<cfg, shared, ctx, req, boot, call, eng, sofar, out, mon, aborts, err>>

\* `await cancellation_task` in __aexit__ returns once the task has ended.
StreamJoin(h) ==
  /\ pc[h] = "join"
  /\ TaskDone(mon[h])
  /\ pc' = [pc EXCEPT ![h] = "done"]
  /\ gen' = [gen EXCEPT ![h] = GenAfter(@, "done")]
  /\ UNCHANGED <<cfg, shared, ctx, req, boot, call, eng, sofar, out, mon, aborts, err>>

\* ------------------------------------- BaseWorkerHandler._handle_cancellation
\* The task's first step: it runs to `await context.async_killed_or_stopped()`.
MonitorStart(h) ==
  /\ mon[h].st = "created"
  /\ ~mon[h].cancel
  /\ mon' = [mon EXCEPT ![h].st = "waiting"]
  /\ UNCHANGED <<cfg, shared, ctx, pc, gen, req, boot, call, eng, sofar, out, aborts, err>>

\* An abort that takes the id from whichever monitor of the worker holds one.
AbortsAfter_AnyId(h, log, ok) ==
  IF cfg[h].tokenizer_manager
    THEN Append(log, [rid |-> mon[CHOOSE g \in Invs : mon[g].rid # None].rid, ok |-> ok])
    ELSE log

\* tokenizer_manager.abort_request(rid=sglang_request_id, abort_all=False); an
\* exception it raises is logged.  Without a tokenizer_manager nothing is called.
AbortsAfter(h, log, ok) ==
  IF cfg[h].tokenizer_manager
    THEN Append(log, [rid |-> mon[h].rid, ok |-> ok])
    ELSE log

\* A task that lets the exception of abort_request escape.
MonitorOutcome_Propagates(ok) == IF ok THEN "done" ELSE "failed"

\* How the task ends after the call: `except Exception` logs what abort_request
\* raised, and the coroutine returns.
MonitorOutcome(ok) == "done"

\* A task that calls abort_request without waiting for the context.
MonitorAbort_NoWait(h) ==
  /\ mon[h].st = "waiting"
  /\ ~mon[h].cancel
  /\ \E ok \in BOOLEAN :
       /\ aborts' = [aborts EXCEPT ![h] = AbortsAfter(h, @, ok)]
       /\ mon' = [mon EXCEPT ![h].st = MonitorOutcome(ok)]
  /\ UNCHANGED <<cfg, shared, ctx, pc, gen, req, boot, call, eng, sofar, out, err>>

\* The context has signalled and the waiting task resumes.
MonitorAbort(h) ==
  /\ mon[h].st = "waiting"
  /\ ~mon[h].cancel
  /\ IsCancelled(h)
  /\ \E ok \in BOOLEAN :
       /\ aborts' = [aborts EXCEPT ![h] = AbortsAfter(h, @, ok)]
       /\ mon' = [mon EXCEPT ![h].st = MonitorOutcome(ok)]
  /\ UNCHANGED <<cfg, shared, ctx, pc, gen, req, boot, call, eng, sofar, out, err>>

\* cancel() reached the task first.  A task that never ran ends cancelled without
\* running its body; a waiting one catches CancelledError and returns.
MonitorCancelled(h) ==
  /\ mon[h].st \in {"created", "waiting"}
  /\ mon[h].cancel
  /\ mon' = [mon EXCEPT ![h].st = IF @ = "created" THEN "cancelled" ELSE "done"]
  /\ UNCHANGED <<cfg, shared, ctx, pc, gen, req, boot, call, eng, sofar, out, aborts, err>>

\* ======================= TensorRT-LLM: HandlerBase.generate_locally =========
\* d[k] = v on a dict.
DictSet(d, k, v) == [x \in DOMAIN d \cup {k} |-> IF x = k THEN v ELSE d[x]]

\* The request's stop_conditions: max_tokens drawn from ms (None, 0 or a count)
\* and, when missing, the dict without the key.
TrtStopConditions(ms, missing) ==
  { [max_tokens |-> m] : m \in ms }
  \cup (IF missing THEN {[ignore_eos |-> <<>>]} ELSE {})

\* The encoded DisaggregatedParams a decode request carries from its prefill.
RequestDisaggParams == [request_type |-> "context_only", ctx_request_id |-> "ctx"]

\* Requests without disaggregated_params and with them.
TrtRequests(ms, missing) ==
  { [sampling_options |-> EmptyDict, stop_conditions |-> sc] :
      sc \in TrtStopConditions(ms, missing) }
  \cup { [sampling_options |-> EmptyDict, stop_conditions |-> sc,
           disaggregated_params |-> RequestDisaggParams] :
            sc \in TrtStopConditions(ms, missing) }

\* sampling_options as a caller may fill them: any of temperature (in tenths),
\* top_k and a key that names no attribute of SamplingParams, each 0 or not.
OptionKeys == {"temperature", "top_k", "no_such_param"}

SamplingOptions == UNION { [K -> {<<0>>, <<3>>}] : K \in SUBSET OptionKeys }

\* stop_conditions with max_tokens None, 0 or a count, and with or without
\* ignore_eos and min_tokens.
ParamStopConditions ==
  LET ms == {<<>>, <<0>>, <<5>>}
      es == {<<FALSE>>, <<TRUE>>}
      ns == {<<0>>, <<1>>}
  IN  { [max_tokens |-> m] : m \in ms }
      \cup { [max_tokens |-> m, ignore_eos |-> e] : m \in ms, e \in es }
      \cup { [max_tokens |-> m, min_tokens |-> n] : m \in ms, n \in ns }
      \cup { [max_tokens |-> m, ignore_eos |-> e, min_tokens |-> n] :
                m \in ms, e \in es, n \in ns }

ParamRequests ==
  { [sampling_options |-> o, stop_conditions |-> sc] :
      o \in SamplingOptions, sc \in ParamStopConditions }

DisaggregationModes == {"AGGREGATED", "PREFILL", "DECODE", "ENCODE"}

\* A HandlerBase (without multimodal_processor) called as invocation h.
TrtCfgs(h, requests) ==
  { [handler |-> "trt", entry |-> TRUE, context |-> <<>>,
     disaggregation_mode |-> m, publisher |-> p,
     default_sampling_params |-> DefaultSamplingParams, request |-> r] :
      m \in DisaggregationModes, p \in BOOLEAN, r \in requests }

\* A call that does not look at the publisher's error queue.
PublisherErrors_Unchecked(h) == {None}

\* publisher.check_error_queue() if self.publisher else None: the error the
\* queue holds when the call is made, where the configuration says what it
\* holds, and else either outcome.
PublisherErrors(h) ==
  IF ~cfg[h].publisher THEN {None}
  ELSE IF "queued" \in DOMAIN cfg[h] THEN {cfg[h].queued}
  ELSE {None, "PublisherError"}

\* `if PREFILL: request["stop_conditions"]["max_tokens"] = 1`: the request dict
\* the caller passed is written.
RequestAfterModeCheck(mode, request) ==
  IF mode = "PREFILL"
    THEN [request EXCEPT !.stop_conditions = DictSet(@, "max_tokens", <<1>>)]
    ELSE request

PrefillParamsError == "ValueError: Cannot provide disaggregated_params in prefill mode"
DecodeParamsError == "ValueError: Disaggregated params are required for decode mode"

\* The validation without the decode-mode check.
ValidationError_NoDecodeCheck(mode, request) ==
  IF "disaggregated_params" \in DOMAIN request /\ mode = "PREFILL"
    THEN PrefillParamsError
  ELSE IF "max_tokens" \notin DOMAIN request.stop_conditions
    THEN "KeyError"
  ELSE None

\* The validation without the prefill-mode check.
ValidationError_NoPrefillCheck(mode, request) ==
  IF mode = "DECODE" /\ "disaggregated_params" \notin DOMAIN request
    THEN DecodeParamsError
  ELSE IF "max_tokens" \notin DOMAIN request.stop_conditions
    THEN "KeyError"
  ELSE None

\* The exception the validation and the parameter derivation raise, or None.
ValidationError(mode, request) ==
  IF "disaggregated_params" \in DOMAIN request /\ mode = "PREFILL"
    THEN PrefillParamsError
  ELSE IF mode = "DECODE" /\ "disaggregated_params" \notin DOMAIN request
    THEN DecodeParamsError
  ELSE IF "max_tokens" \notin DOMAIN request.stop_conditions
    THEN "KeyError"
  ELSE None

\* The disaggregated_params of the engine call: decoded from the request with
\* request_type overwritten, or context_only in prefill mode, or None.
DisaggParamsFor(mode, request) ==
  IF "disaggregated_params" \in DOMAIN request
    THEN <<[request.disaggregated_params EXCEPT !.request_type = "generation_only"]>>
  ELSE IF mode = "PREFILL"
    THEN <<[request_type |-> "context_only"]>>
  ELSE <<>>

\* copy.deepcopy(default_sampling_params); each sampling option that is truthy
\* and names an attribute is set; then `if max_tokens:`, `if ignore_eos:`,
\* `if min_tokens:` set the values of stop_conditions.
SamplingParamsFor(default, request) ==
  LET opts == request.sampling_options
      sc == request.stop_conditions
      merged == [k \in DOMAIN default |->
                   IF k \in DOMAIN opts /\ TruthyNum(opts[k]) THEN opts[k] ELSE default[k]]
  IN  [merged EXCEPT
         !.max_tokens = IF TruthyNum(sc.max_tokens) THEN sc.max_tokens ELSE @,
         !.ignore_eos = IF "ignore_eos" \in DOMAIN sc /\ TruthyFlag(sc.ignore_eos)
                          THEN sc.ignore_eos ELSE @,
         !.min_tokens = IF "min_tokens" \in DOMAIN sc /\ TruthyNum(sc.min_tokens)
                          THEN sc.min_tokens ELSE @]

\* A derivation that sets the values on self.default_sampling_params itself.
DefaultsAfter_NoCopy(default, request) == SamplingParamsFor(default, request)

\* self.default_sampling_params after the derivation: the values are set on the
\* deep copy, the handler's object is left as it was.
DefaultsAfter(default, request) == default

\* engine.llm.generate_async(inputs=..., sampling_params=..., disaggregated_params=...,
\* streaming=...)
TrtCall(h, request) ==
  [sampling_params |-> SamplingParamsFor(shared.default_sampling_params, request),
   disaggregated_params |-> DisaggParamsFor(cfg[h].disaggregation_mode, request),
   streaming |-> cfg[h].disaggregation_mode # "PREFILL"]

\* generate_locally up to its first suspension: the publisher's error queue, the
\* mode checks, the parameters, the engine call.
TrtStart(h) ==
  /\ cfg[h].handler = "trt"
  /\ pc[h] = "start"
  /\ \E e \in PublisherErrors(h) :
       LET mode == cfg[h].disaggregation_mode
           request == RequestAfterModeCheck(mode, req[h][1])
           failure == IF e # None THEN e ELSE ValidationError(mode, request)
       IN  /\ req' = [req EXCEPT ![h] = IF e # None THEN @ ELSE <<request>>]
           /\ IF failure # None
                THEN /\ pc' = [pc EXCEPT ![h] = "raised"]
                     /\ gen' = [gen EXCEPT ![h] = "raised"]
                     /\ err' = [err EXCEPT ![h] = failure]
                     /\ UNCHANGED <<call, shared>>
                ELSE /\ pc' = [pc EXCEPT ![h] = "await_next"]
                     /\ call' = [call EXCEPT ![h] = Append(@, TrtCall(h, request))]
                     /\ shared' = [shared EXCEPT !.default_sampling_params =
                                     DefaultsAfter(@, request)]
                     /\ UNCHANGED <<gen, err>>
  /\ UNCHANGED <<cfg, ctx, boot, eng, sofar, out, mon, aborts>>

\* ------------------------------------------------------ the trtllm engine
\* finish_reason and stop_reason of an output as the engine may set them.
TrtReasons == { <<None, None>>, <<"length", None>>, <<"stop", None>>, <<"stop", "eos">> }

\* timing_metrics of a finished request: kv_cache_size and the transfer's start
\* and end in seconds.
TimingMetrics ==
  { [kv_cache_size |-> b, kv_cache_transfer_start |-> s, kv_cache_transfer_end |-> 2] :
      b \in {0, 1024}, s \in {0, 2} }

\* The output candidates of a snapshot.  Only a finished snapshot's
\* request_perf_metrics is read, and its disaggregated_params in every mode but
\* prefill, where each output carries them.
TrtOutputs(h, finished) ==
  { [token_ids |-> Toks(n), finish_reason |-> r[1], stop_reason |-> r[2],
     disaggregated_params |-> dp, request_perf_metrics |-> pm] :
      n \in eng[h].n .. Min(eng[h].n + MaxGrow, MaxLen),
      r \in TrtReasons,
      dp \in (IF cfg[h].disaggregation_mode = "PREFILL"
                THEN {<<[request_type |-> "context_only", ctx_request_id |-> "ctx"]>>}
                ELSE IF finished
                  THEN {<<>>, <<[request_type |-> "generation_only", ctx_request_id |-> "ctx"]>>}
                  ELSE {<<>>}),
      pm \in (IF finished /\ cfg[h].disaggregation_mode # "PREFILL"
                THEN {<<>>} \cup { <<t>> : t \in TimingMetrics }
                ELSE {<<>>}) }

\* What the engine call may stream next; a call that does not stream delivers
\* its one, finished, result.
TrtSnapshots(h) ==
  UNION { { [finished |-> f, outputs |-> os] :
              os \in {<<>>} \cup { <<o>> : o \in TrtOutputs(h, f) } } :
          f \in (IF call[h][1].streaming THEN BOOLEAN ELSE {TRUE}) }

TrtEngineAfter(e, res) ==
  [e EXCEPT !.n = IF res.outputs = <<>> THEN @ ELSE Len(res.outputs[1].token_ids),
            !.snaps = @ + 1,
            !.fin = res.finished,
            !.empty = (res.outputs = <<>>),
            !.finish_reason = IF res.outputs = <<>> THEN None ELSE res.outputs[1].finish_reason,
            !.stop_reason = IF res.outputs = <<>> THEN None ELSE res.outputs[1].stop_reason]

\* ----------------------------------------------------- KV transfer metrics
\* A computation that takes the end time for the latency.
calculate_kv_perf_metrics_EndOnly(bytes, start, end) ==
  IF bytes = 0 THEN <<-1, -1>> ELSE <<end, bytes \div end>>

\* HandlerBase.calculate_kv_perf_metrics: (latency, bytes_per_second), or the
\* assertion fails.  The division is exact on the values drawn here.
KvAssertFails(bytes, start, end) == bytes # 0 /\ ~(start < end)

calculate_kv_perf_metrics(bytes, start, end) ==
  IF bytes = 0 THEN <<-1, -1>> ELSE <<end - start, bytes \div (end - start)>>

\* ------------------------------------------------------------- the loop
\* A first iteration that starts the publisher and leaves the flag set.
SharedAfterFirst_NoFlagReset(h) ==
  IF shared.first_generation /\ cfg[h].publisher
    THEN [shared EXCEPT !.starts = @ + 1]
    ELSE shared

\* A first iteration that clears the flag and does not start the publisher.
SharedAfterFirst_FlagOnly(h) ==
  IF shared.first_generation /\ cfg[h].publisher
    THEN [shared EXCEPT !.first_generation = FALSE]
    ELSE shared

\* `if self.first_generation and self.publisher: publisher.start();
\* self.first_generation = False`, with no suspension in between.
SharedAfterFirst(h) ==
  IF shared.first_generation /\ cfg[h].publisher
    THEN [shared EXCEPT !.first_generation = FALSE, !.starts = @ + 1]
    ELSE shared

\* The final chunk of a finished stream.
FinalChunk(output) ==
  IF output.disaggregated_params # <<>>
    THEN [finish_reason |-> "stop", token_ids |-> <<>>,
          ctx_request_id |-> output.disaggregated_params[1].ctx_request_id]
    ELSE [finish_reason |-> "stop", token_ids |-> <<>>]

ErrorChunk == [finish_reason |-> "error", token_ids |-> <<>>]

\* The delta chunk of a snapshot.
TrtDelta(token_ids, n) == Slice(token_ids, n)

DeltaChunk(mode, output, n) ==
  LET c0 == [token_ids |-> TrtDelta(output.token_ids, n)]
      c1 == IF output.finish_reason # None
              THEN DictSet(c0, "finish_reason", output.finish_reason) ELSE c0
      c2 == IF output.stop_reason # None
              THEN DictSet(c1, "stop_reason", output.stop_reason) ELSE c1
  IN  IF mode = "PREFILL"
        THEN DictSet(c2, "disaggregated_params", output.disaggregated_params[1])
        ELSE c2

\* Whether the snapshot takes the finished branch.
TakesFinal(mode, res) == res.finished /\ mode # "PREFILL"

\* The exception one iteration raises, or None: res.outputs[0] of no outputs, the
\* assertion of the metrics, publish_kv_perf on a handler without publisher.
IterationError(h, res) ==
  IF ~TakesFinal(cfg[h].disaggregation_mode, res) THEN None
  ELSE IF res.outputs = <<>> THEN "IndexError"
  ELSE IF res.outputs[1].request_perf_metrics = <<>> THEN None
  ELSE LET t == res.outputs[1].request_perf_metrics[1] IN
       IF KvAssertFails(t.kv_cache_size, t.kv_cache_transfer_start, t.kv_cache_transfer_end)
         THEN "AssertionError"
       ELSE IF ~cfg[h].publisher THEN "AttributeError"
       ELSE None

\* publisher.publish_kv_perf(KvPerfStats(transfer_latency=latency))
SharedAfterPublish(sh, h, res) ==
  IF /\ TakesFinal(cfg[h].disaggregation_mode, res)
     /\ res.outputs # <<>>
     /\ res.outputs[1].request_perf_metrics # <<>>
    THEN LET t == res.outputs[1].request_perf_metrics[1] IN
         [sh EXCEPT !.kv = Append(@, calculate_kv_perf_metrics(
             t.kv_cache_size, t.kv_cache_transfer_start, t.kv_cache_transfer_end)[1]),
                    !.early = @ \/ sh.starts = 0]
    ELSE sh

\* The chunk one iteration yields.
IterationChunk(h, res) ==
  IF TakesFinal(cfg[h].disaggregation_mode, res) THEN FinalChunk(res.outputs[1])
  ELSE IF res.outputs = <<>> THEN ErrorChunk
  ELSE DeltaChunk(cfg[h].disaggregation_mode, res.outputs[1], sofar[h])

\* The loop breaks after the final chunk and after the error chunk.
BreaksAfter(h, res) ==
  TakesFinal(cfg[h].disaggregation_mode, res) \/ res.outputs = <<>>

\* One iteration of `async for res in generate_async(...)`, up to its yield.
TrtRecv(h) ==
  /\ cfg[h].handler = "trt"
  /\ pc[h] = "await_next"
  /\ ~eng[h].fin
  /\ eng[h].snaps < eng[h].limit
  /\ \E res \in TrtSnapshots(h) :
       /\ eng' = [eng EXCEPT ![h] = TrtEngineAfter(@, res)]
       /\ IF IterationError(h, res) # None
            THEN /\ shared' = SharedAfterFirst(h)
                 /\ pc' = [pc EXCEPT ![h] = "raised"]
                 /\ gen' = [gen EXCEPT ![h] = "raised"]
                 /\ err' = [err EXCEPT ![h] = IterationError(h, res)]
                 /\ UNCHANGED out
            ELSE /\ shared' = SharedAfterPublish(SharedAfterFirst(h), h, res)
                 /\ out' = [out EXCEPT ![h] = Append(@, IterationChunk(h, res))]
                 /\ pc' = [pc EXCEPT ![h] =
                             IF BreaksAfter(h, res) THEN "yield_final" ELSE "yield"]
                 /\ UNCHANGED <<gen, err>>
  /\ UNCHANGED <<cfg, ctx, req, boot, call, sofar, mon, aborts>>

\* The caller asks for the next chunk: after a delta chunk
\* num_output_tokens_so_far = next_total_toks and the loop goes on; after the
\* final or the error chunk the loop breaks and the stream ends.
TrtResume(h) ==
  /\ cfg[h].handler = "trt"
  /\ pc[h] \in {"yield", "yield_final"}
  /\ IF pc[h] = "yield"
       THEN /\ sofar' = [sofar EXCEPT ![h] = eng[h].n]
            /\ pc' = [pc EXCEPT ![h] = "await_next"]
            /\ UNCHANGED gen
       ELSE /\ pc' = [pc EXCEPT ![h] = "done"]
            /\ gen' = [gen EXCEPT ![h] = "returned"]
            /\ UNCHANGED sofar
  /\ UNCHANGED <<cfg, shared, ctx, req, boot, call, eng, out, mon, aborts, err>>

\* The caller closes the stream at a yield.
TrtClose(h) ==
  /\ cfg[h].handler = "trt"
  /\ pc[h] \in {"yield", "yield_final"}
  /\ pc' = [pc EXCEPT ![h] = "closed"]
  /\ gen' = [gen EXCEPT ![h] = "closed"]
  /\ UNCHANGED <<cfg, shared, ctx, req, boot, call, eng, sofar, out, mon, aborts, err>>

\* The engine's stream ends after its finished result (reached in prefill mode,
\* where the finished result is an ordinary chunk).
TrtEnd(h) ==
  /\ cfg[h].handler = "trt"
  /\ pc[h] = "await_next"
  /\ eng[h].fin
  /\ pc' = [pc EXCEPT ![h] = "done"]
  /\ gen' = [gen EXCEPT ![h] = "returned"]
  /\ UNCHANGED <<cfg, shared, ctx, req, boot, call, eng, sofar, out, mon, aborts, err>>

\* ------------------------------------ calculate_kv_perf_metrics on its own
\* The arguments of a direct call: a byte count and two times in seconds, such
\* that the throughput of a valid transfer is a whole number.
KvBytes == {0, 12, 1024}

KvInputs ==
  { i \in KvBytes \X (0 .. MaxTime) \X (0 .. MaxTime) :
      i[2] < i[3] => i[1] % (i[3] - i[2]) = 0 }

KvCfgs ==
  { [handler |-> "kv", entry |-> TRUE, context |-> <<>>,
     request |-> [bytes |-> i[1], start |-> i[2], end |-> i[3]]] : i \in KvInputs }

InitKv ==
  /\ \E c \in KvCfgs : cfg = [h \in Invs |-> IF h = 1 THEN c ELSE Unused]
  /\ InitState([h \in Invs |-> 0])

\* self.calculate_kv_perf_metrics(bytes, start, end): the tuple returned, or the
\* AssertionError.
KvCall(h) ==
  /\ cfg[h].handler = "kv"
  /\ pc[h] = "start"
  /\ IF KvAssertFails(req[h][1].bytes, req[h][1].start, req[h][1].end)
       THEN /\ pc' = [pc EXCEPT ![h] = "raised"]
            /\ gen' = [gen EXCEPT ![h] = "raised"]
            /\ err' = [err EXCEPT ![h] = "AssertionError"]
            /\ UNCHANGED out
       ELSE /\ pc' = [pc EXCEPT ![h] = "done"]
            /\ gen' = [gen EXCEPT ![h] = "returned"]
            /\ out' = [out EXCEPT ![h] =
                         <<calculate_kv_perf_metrics(
                             req[h][1].bytes, req[h][1].start, req[h][1].end)>>]
            /\ UNCHANGED err
  /\ UNCHANGED <<cfg, shared, ctx, req, boot, call, eng, sofar, mon, aborts>>

NextKv == \E h \in Invs : KvCall(h)

SpecKv == InitKv /\ [][NextKv]_vars

\* ---------------------------------------------------------- specifications
StreamStep(h) ==
  \/ StreamRecv(h)
  \/ StreamEnd(h)
  \/ StreamResume(h)
  \/ StreamClose(h)
  \/ StreamJoin(h)
  \/ MonitorStart(h)
  \/ MonitorAbort(h)
  \/ MonitorCancelled(h)

NextSg ==
  \/ \E h \in Invs :
       \/ DecodeGenerate(h)
       \/ PrefillGenerate(h)
       \/ PrefillResume(h)
       \/ PrefillClose(h)
       \/ StreamStep(h)
  \/ \E c \in Invs : Cancel(c)

\* One sglang handler (aggregated decode, or prefill) serving one request.
SpecSg == InitSg /\ [][NextSg]_vars

\* The event loop runs every task that is ready: the steps of the monitor task,
\* the handler's loop on the snapshots and resumptions it is given, and its
\* return from the cleanup.
FairSteps ==
  \A h \in Invs :
    /\ WF_vars(MonitorStart(h))
    /\ WF_vars(MonitorAbort(h))
    /\ WF_vars(MonitorCancelled(h))
    /\ WF_vars(StreamRecv(h))
    /\ WF_vars(StreamEnd(h))
    /\ WF_vars(StreamResume(h))
    /\ WF_vars(StreamJoin(h))

FairSg == SpecSg /\ FairSteps

\* The prefill handler a decode handler reaches through prefill_client; the
\* context of the request is passed on to it.
PairedPrefillCfg(c) ==
  [handler |-> "sgl_prefill", entry |-> FALSE, tokenizer_manager |-> TRUE,
   context |-> c.context, bootstrap_host |-> "host", bootstrap_port |-> "port"]

\* A decode handler in decode mode (invocation 1) and its prefill handler
\* (invocation 2), given any max_tokens.  The prefill engine delivers no
\* snapshot within the window: its consumption is explored under SpecSg.
InitPd ==
  /\ \E c \in SglDecodeCfgs(1, {"DECODE"}, MaxTokensChoices) :
       /\ SglDecodeOk(c)
       /\ cfg = [h \in Invs |-> IF h = 1 THEN c
                                ELSE IF h = c.peer THEN PairedPrefillCfg(c) ELSE Unused]
  /\ InitState([h \in Invs |-> IF h = 1 THEN ReqSnaps ELSE 0])

NextPd ==
  \/ NextSg
  \/ \E h \in Invs : DecodeBootstrap(h) \/ DecodeNoBootstrap(h)

SpecPd == InitPd /\ [][NextPd]_vars

NextTrt ==
  \E h \in Invs :
    \/ TrtStart(h)
    \/ TrtRecv(h)
    \/ TrtResume(h)
    \/ TrtClose(h)
    \/ TrtEnd(h)

\* One trtllm handler streaming one well-formed request per mode: max_tokens
\* set, disaggregated_params exactly in decode mode.
TrtCfgOk(c) ==
  ("disaggregated_params" \in DOMAIN c.request) <=> (c.disaggregation_mode = "DECODE")

InitTrt ==
  /\ \E c \in TrtCfgs(1, TrtRequests({<<5>>}, FALSE)) :
       /\ TrtCfgOk(c)
       /\ cfg = [h \in Invs |-> IF h = 1 THEN c ELSE Unused]
  /\ InitState([h \in Invs |-> MaxSnaps])

SpecTrt == InitTrt /\ [][NextTrt]_vars

\* One trtllm handler in aggregated or prefill mode, without publisher, given
\* any sampling options and stop conditions.
InitParams ==
  /\ \E c \in TrtCfgs(1, ParamRequests) :
       /\ c.disaggregation_mode \in {"AGGREGATED", "PREFILL"}
       /\ ~c.publisher
       /\ cfg = [h \in Invs |-> IF h = 1 THEN c ELSE Unused]
  /\ InitState([h \in Invs |-> ReqSnaps])

SpecParams == InitParams /\ [][NextTrt]_vars

\* One trtllm handler given any request: stop conditions with max_tokens
\* missing, None, 0, 1 or more, with and without disaggregated_params.
InitTrtReq ==
  /\ \E c \in TrtCfgs(1, TrtRequests(MaxTokensChoices, TRUE)) :
       cfg = [h \in Invs |-> IF h = 1 THEN c ELSE Unused]
  /\ InitState([h \in Invs |-> ReqSnaps])

SpecTrtReq == InitTrtReq /\ [][NextTrt]_vars

\* One trtllm handler (one mode, one publisher or none, one first_generation
\* flag) serving two well-formed requests at once.
InitTrtTwo ==
  /\ \E c1 \in TrtCfgs(1, TrtRequests({<<5>>}, FALSE)),
        c2 \in TrtCfgs(2, TrtRequests({<<5>>}, FALSE)) :
       /\ TrtCfgOk(c1) /\ TrtCfgOk(c2)
       /\ c1.disaggregation_mode = c2.disaggregation_mode
       /\ c1.publisher = c2.publisher
       /\ cfg = [h \in Invs |-> IF h = 1 THEN c1 ELSE IF h = 2 THEN c2 ELSE Unused]
  /\ InitState([h \in Invs |-> ReqSnaps])

SpecTrtTwo == InitTrtTwo /\ [][NextTrt]_vars

\* One prefill handler (one process) invoked by the runtime for two requests at
\* once, each with its own context or none.
InitRooms ==
  /\ \E c1 \in SglPrefillCfgs(1, TRUE, {<<>>}), c2 \in SglPrefillCfgs(2, TRUE, {<<>>}) :
       cfg = [h \in Invs |-> IF h = 1 THEN c1 ELSE IF h = 2 THEN c2 ELSE Unused]
  /\ InitState([h \in Invs |-> ReqSnaps])

NextRooms ==
  \/ \E h \in Invs :
       \/ PrefillGenerate(h)
       \/ PrefillResume(h)
       \/ PrefillClose(h)
       \/ StreamRecv(h)
       \/ StreamEnd(h)
       \/ StreamJoin(h)
       \/ MonitorStart(h)
       \/ MonitorAbort(h)
       \/ MonitorCancelled(h)
  \/ \E c \in Invs : Cancel(c)

SpecRooms == InitRooms /\ [][NextRooms]_vars

\* A request that supplies no sampling option and no stop condition.
PlainRequest ==
  [sampling_options |-> EmptyDict, stop_conditions |-> [max_tokens |-> <<>>]]

\* One trtllm handler in aggregated mode serving a request with any sampling
\* options and stop conditions, and a request without overrides that starts
\* before, during or after it.  Only the first request's stream is followed.
InitDefaults ==
  /\ \E c1 \in TrtCfgs(1, ParamRequests), c2 \in TrtCfgs(2, {PlainRequest}) :
       /\ c1.disaggregation_mode = "AGGREGATED" /\ c2.disaggregation_mode = "AGGREGATED"
       /\ ~c1.publisher /\ ~c2.publisher
       /\ cfg = [h \in Invs |-> IF h = 1 THEN c1 ELSE IF h = 2 THEN c2 ELSE Unused]
  /\ InitState([h \in Invs |-> IF h = 1 THEN ReqSnaps ELSE 0])

NextDefaults ==
  \E h \in Invs :
    \/ TrtStart(h)
    \/ TrtRecv(h)
    \/ TrtResume(h)
    \/ TrtClose(h)

SpecDefaults == InitDefaults /\ [][NextDefaults]_vars

\* One trtllm handler serving one well-formed request; queued is what the
\* publisher's error queue holds when generate_locally is called.
InitQueue ==
  /\ \E c \in TrtCfgs(1, TrtRequests({<<5>>}, FALSE)), e \in {None, "PublisherError"} :
       /\ TrtCfgOk(c)
       /\ cfg = [h \in Invs |-> IF h = 1 THEN DictSet(c, "queued", e) ELSE Unused]
  /\ InitState([h \in Invs |-> ReqSnaps])

SpecQueue == InitQueue /\ [][NextTrt]_vars

\* Token streaming of either backend: an sglang handler or a trtllm handler.
InitTokens == InitSg \/ InitTrt

NextTokens == NextSg \/ NextTrt

SpecTokens == InitTokens /\ [][NextTokens]_vars

\* Prefill of either backend, given any max_tokens: the sglang handler pair or
\* a trtllm handler.
InitPrefill == InitPd \/ InitTrtReq

NextPrefill == NextPd \/ NextTrt

SpecPrefill == InitPrefill /\ [][NextPrefill]_vars

\* One decode handler in aggregated mode (token loop, with a tokenizer_manager)
\* serving two requests at once, each with its own context.
InitTwo ==
  /\ \E c1 \in SglDecodeCfgs(1, {"AGGREGATED"}, {<<>>}),
        c2 \in SglDecodeCfgs(2, {"AGGREGATED"}, {<<>>}) :
       /\ SglDecodeOk(c1) /\ SglDecodeOk(c2)
       /\ c1.skip_tokenizer_init /\ c2.skip_tokenizer_init
       /\ c1.tokenizer_manager /\ c2.tokenizer_manager
       /\ c1.context = <<1>> /\ c2.context = <<2>>
       /\ cfg = [h \in Invs |-> IF h = 1 THEN c1 ELSE IF h = 2 THEN c2 ELSE Unused]
  /\ InitState([h \in Invs |-> ReqSnaps])

NextTwo ==
  \/ \E h \in Invs : DecodeGenerate(h) \/ StreamStep(h)
  \/ \E c \in Invs : Cancel(c)

SpecTwo == InitTwo /\ [][NextTwo]_vars

\* Any handler of either backend serving one request: the sglang handlers alone
\* and paired, or a trtllm handler.
InitAny == InitSg \/ InitPd \/ InitTrtReq

NextAny == NextPd \/ NextTrt

SpecAny == InitAny /\ [][NextAny]_vars

\* ------------------------------------------------------------- properties
\* The content deltas (text mode) and token_ids deltas (token mode) emitted so far.
Contents(h) == [i \in 1 .. Len(out[h]) |-> out[h][i].content]
TokenIds(h) == [i \in 1 .. Len(out[h]) |-> out[h][i].token_ids]

HasAbort(h, rid) == \E i \in 1 .. Len(aborts[h]) : aborts[h][i].rid = rid

\* C1: when the context had signalled before the snapshot carrying the
\* engine-internal id arrived, the engine's abort_request is still called with
\* that id: once the loop and its cleanup have ended, the call has been made.
C1_EarlyCancelStillAborts ==
  \A h \in Invs :
    (/\ cfg[h].handler \in {"sgl_decode", "sgl_prefill"}
     /\ cfg[h].tokenizer_manager
     /\ mon[h].pre
     /\ pc[h] = "done")
    => HasAbort(h, mon[h].rid)

\* C2: when the stream of a token or text loop has terminated (returned, raised,
\* or closed by its consumer), a monitor task that was started has ended.
C2_MonitorJoinedOnEveryExit ==
  \A h \in Invs :
    (cfg[h].handler = "sgl_decode" /\ pc[h] \in {"done", "raised", "closed"})
    => (mon[h].st = "none" \/ TaskDone(mon[h]))

\* C4: in text mode, whenever every snapshot received so far has been emitted
\* (in particular when the engine stream has ended without a cancellation
\* break), the content deltas concatenate to the text of the last snapshot, so
\* no character is emitted twice.
C4_TextDeltasConcat ==
  \A h \in Invs :
    (/\ cfg[h].handler = "sgl_decode"
     /\ Kind(h) = "text"
     /\ Len(out[h]) = eng[h].snaps)
    => Concat(Contents(h)) = Toks(eng[h].n)

\* A text stream that has ended after three snapshots, each adding text.
C4_Witness ==
  \E h \in Invs :
    /\ cfg[h].handler = "sgl_decode"
    /\ Kind(h) = "text"
    /\ pc[h] = "done"
    /\ eng[h].fin
    /\ Len(out[h]) = eng[h].snaps
    /\ Len(out[h]) = 3
    /\ \A i \in 1 .. 3 : out[h][i].content # <<>>

\* C3: a token stream that has run until the engine finished, without a
\* cancellation break and without an error, has emitted token_ids deltas that
\* concatenate to the token sequence of the final snapshot (sglang token loop
\* and trtllm generate_locally).
C3_TokenDeltasConcat ==
  \A h \in Invs :
    (/\ \/ cfg[h].handler = "sgl_decode" /\ Kind(h) = "token"
        \/ cfg[h].handler = "trt"
     /\ pc[h] = "done"
     /\ err[h] = None
     /\ eng[h].fin
     /\ Len(out[h]) = eng[h].snaps
     /\ \A i \in 1 .. Len(out[h]) :
          "finish_reason" \in DOMAIN out[h][i] => out[h][i].finish_reason # "error")
    => Concat(TokenIds(h)) = Toks(eng[h].n)

\* C5: in decode mode a request without disaggregated_params is rejected: once
\* generate_locally has taken its first step it has raised, and no engine call
\* has been issued.
C5_DecodeWithoutParamsRejected ==
  \A h \in Invs :
    (/\ cfg[h].handler = "trt"
     /\ cfg[h].disaggregation_mode = "DECODE"
     /\ "disaggregated_params" \notin DOMAIN cfg[h].request
     /\ pc[h] # "start")
    => /\ pc[h] = "raised"
       /\ err[h] \in {DecodeParamsError, "PublisherError"}
       /\ call[h] = <<>>

\* A decode-mode request without disaggregated_params rejected by the mode check.
C5_Witness ==
  \E h \in Invs :
    /\ cfg[h].handler = "trt"
    /\ cfg[h].disaggregation_mode = "DECODE"
    /\ "disaggregated_params" \notin DOMAIN cfg[h].request
    /\ pc[h] = "raised"
    /\ err[h] = DecodeParamsError

\* C6: in prefill mode a request with disaggregated_params is rejected: once
\* generate_locally has taken its first step it has raised, and no engine call
\* has been issued.
C6_PrefillWithParamsRejected ==
  \A h \in Invs :
    (/\ cfg[h].handler = "trt"
     /\ cfg[h].disaggregation_mode = "PREFILL"
     /\ "disaggregated_params" \in DOMAIN cfg[h].request
     /\ pc[h] # "start")
    => /\ pc[h] = "raised"
       /\ err[h] \in {PrefillParamsError, "PublisherError"}
       /\ call[h] = <<>>

\* A prefill-mode request with disaggregated_params rejected by the mode check.
C6_Witness ==
  \E h \in Invs :
    /\ cfg[h].handler = "trt"
    /\ cfg[h].disaggregation_mode = "PREFILL"
    /\ "disaggregated_params" \in DOMAIN cfg[h].request
    /\ pc[h] = "raised"
    /\ err[h] = PrefillParamsError

\* C7: when generate_locally has returned, raised or been closed, the request
\* the caller passed still has every value the caller supplied.
C7_RequestUnmodified ==
  \A h \in Invs :
    (/\ cfg[h].handler = "trt"
     /\ pc[h] \in {"done", "raised", "closed"})
    => req[h] = <<cfg[h].request>>

\* C8: the stream of PrefillWorkerHandler.generate carries at most one item,
\* and from its first step on exactly one: the bootstrap info with the
\* handler's host and port and the room drawn for the request.  Neither the
\* engine call nor the consumption of its results adds an item.
C8_PrefillYieldsOnlyBootstrapInfo ==
  \A h \in Invs :
    cfg[h].handler = "sgl_prefill"
    => /\ Len(out[h]) <= 1
       /\ pc[h] \notin {"idle", "start", "lost"}
            => /\ Len(out[h]) = 1
               /\ DOMAIN out[h][1] = {"bootstrap_host", "bootstrap_port", "bootstrap_room"}
               /\ out[h][1].bootstrap_host = cfg[h].bootstrap_host
               /\ out[h][1].bootstrap_port = cfg[h].bootstrap_port
               /\ out[h][1].bootstrap_room \in 0 .. MaxRoom
       /\ call[h] # <<>> => call[h][1].bootstrap_room = out[h][1].bootstrap_room

\* A prefill handler whose generate() has returned and whose engine results
\* have been consumed to the end, two snapshots or more.
C8_Witness ==
  \E h \in Invs :
    /\ cfg[h].handler = "sgl_prefill"
    /\ gen[h] = "returned"
    /\ pc[h] = "done"
    /\ eng[h].snaps >= 2
    /\ Len(out[h]) = 1

\* C9: every engine call of a prefill-mode handler carries max_tokens 1
\* (trtllm generate_locally in prefill mode: max_tokens; sglang
\* PrefillWorkerHandler: max_new_tokens).
C9_PrefillCallMaxTokensOne ==
  \A h \in Invs :
    call[h] # <<>>
    => /\ (cfg[h].handler = "trt" /\ cfg[h].disaggregation_mode = "PREFILL")
            => call[h][1].sampling_params.max_tokens = <<1>>
       /\ cfg[h].handler = "sgl_prefill"
            => call[h][1].sampling_params.max_new_tokens = <<1>>

\* C10: a decode-mode handler reads at most one item of the prefill stream; its
\* engine call exists only when it has read one, the first item the prefill
\* handler yielded, and carries that item's host, port and room.
C10_DecodeCallAfterBootstrap ==
  \A h \in Invs :
    (cfg[h].handler = "sgl_decode" /\ cfg[h].serving_mode = "DECODE")
    => /\ Len(boot[h]) <= 1
       /\ call[h] # <<>>
            => /\ Len(boot[h]) = 1
               /\ boot[h][1] = out[cfg[h].peer][1]
               /\ call[h][1].bootstrap_host = boot[h][1].bootstrap_host
               /\ call[h][1].bootstrap_port = boot[h][1].bootstrap_port
               /\ call[h][1].bootstrap_room = boot[h][1].bootstrap_room

\* A decode-mode handler that has issued its engine call with the room of the
\* item it read, and streamed to the end.
C10_Witness ==
  \E h \in Invs :
    /\ cfg[h].handler = "sgl_decode"
    /\ cfg[h].serving_mode = "DECODE"
    /\ pc[h] = "done"
    /\ call[h] # <<>>
    /\ out[h] # <<>>
    /\ boot[h][1].bootstrap_room = MaxRoom

\* C11: when the prefill stream of a decode-mode handler has ended without an
\* item, generate has raised the missing-bootstrap error and issued no engine
\* call, whatever the context says.
C11_NoBootstrapAlwaysRaises ==
  \A h \in Invs :
    (/\ cfg[h].handler = "sgl_decode"
     /\ cfg[h].serving_mode = "DECODE"
     /\ pc[cfg[h].peer] = "lost")
    => /\ pc[h] = "raised"
       /\ err[h] = "RuntimeError"
       /\ call[h] = <<>>

\* C12: the step in which a decode-mode handler receives the bootstrap item
\* while its context has already signalled ends generate: no engine call is
\* issued and no chunk has been yielded.
C12_CancelledAtBootstrapEnds ==
  [][\A h \in Invs :
       (/\ cfg[h].handler = "sgl_decode"
        /\ pc[h] = "await_bootstrap"
        /\ IsCancelled(h)
        /\ boot'[h] # boot[h])
       => /\ pc'[h] = "done"
          /\ gen'[h] = "returned"
          /\ call'[h] = <<>>
          /\ out'[h] = <<>>]_vars

\* A decode-mode handler that received the item under a signalled context and
\* has returned.
C12_Witness ==
  \E h \in Invs :
    /\ cfg[h].handler = "sgl_decode"
    /\ cfg[h].serving_mode = "DECODE"
    /\ IsCancelled(h)
    /\ boot[h] # <<>>
    /\ pc[h] = "done"
    /\ call[h] = <<>>
    /\ out[h] = <<>>

\* C13: an invocation of generate (either branch of the decode handler, the
\* prefill handler, generate_locally) has issued at most one engine call.
C13_AtMostOneEngineCall ==
  \A h \in Invs : Len(call[h]) <= 1

\* A decode-mode request whose two stages have each issued their engine call,
\* the decode stage having streamed to its end.
C13_Witness ==
  \E h \in Invs :
    /\ cfg[h].handler = "sgl_decode"
    /\ cfg[h].serving_mode = "DECODE"
    /\ pc[h] = "done"
    /\ out[h] # <<>>
    /\ Len(call[h]) = 1
    /\ Len(call[cfg[h].peer]) = 1

\* C14: every abort_request call of a request's monitor carries the id of that
\* request's own engine call, taken from a snapshot it received, and is made
\* only when that request's own context has signalled; it never carries the id
\* of another request's engine call.
C14_AbortTargetsOwnCall ==
  \A h \in Invs : \A i \in 1 .. Len(aborts[h]) :
    /\ aborts[h][i].rid = Rid(h)
    /\ eng[h].snaps >= 1
    /\ IsCancelled(h)
    /\ \A g \in Invs \ {h} : aborts[h][i].rid # Rid(g)

\* Two requests in flight, both monitors started; the first was cancelled and
\* its engine call aborted while the second's context is live and untouched.
C14_Witness ==
  /\ cfg[1].handler = "sgl_decode" /\ cfg[2].handler = "sgl_decode"
  /\ Len(aborts[1]) = 1
  /\ aborts[1][1].rid = Rid(1)
  /\ mon[2].st = "waiting"
  /\ mon[2].rid = Rid(2)
  /\ ctx[2] = "live"
  /\ aborts[2] = <<>>

\* C15: a request has created at most one monitor task; a monitor exists only
\* once a snapshot carrying the engine-internal id has been received, and, for
\* a request with a context, from the very snapshot that first carried it
\* (token and text loops, _consume_results).
C15_OneLazyMonitor ==
  \A h \in Invs :
    cfg[h].handler \in {"sgl_decode", "sgl_prefill"}
    => /\ mon[h].made <= 1
       /\ (mon[h].st = "none") = (mon[h].made = 0)
       /\ mon[h].st # "none" => (eng[h].seen_id /\ mon[h].rid = Rid(h))
       /\ (cfg[h].context # <<>> /\ eng[h].seen_id) => mon[h].st # "none"

\* The first snapshot carried no id, a later one did and the monitor was
\* created then; a third snapshot followed without a second monitor.
C15_Witness ==
  \E h \in Invs :
    /\ cfg[h].handler = "sgl_decode"
    /\ Kind(h) = "text"
    /\ eng[h].snaps = 3
    /\ Len(out[h]) = 3
    /\ out[h][1].id = None
    /\ out[h][2].id = Rid(h)
    /\ out[h][3].id = Rid(h)
    /\ mon[h].made = 1

\* C16: whenever the context has signalled while the engine call is live and
\* the monitor task is running (blocked on the context, not cancelled), the
\* engine's abort_request is eventually called with the request's id.
C16_SignalLeadsToAbort ==
  \A h \in Invs :
    (/\ cfg[h].handler \in {"sgl_decode", "sgl_prefill"}
     /\ cfg[h].tokenizer_manager
     /\ IsCancelled(h)
     /\ mon[h].st = "waiting"
     /\ ~mon[h].cancel
     /\ pc[h] \in {"await_next", "yield"}
     /\ ~eng[h].fin)
    ~> HasAbort(h, Rid(h))

\* Whether an abort_request call of invocation h has raised.
AbortFailed(h) == \E i \in 1 .. Len(aborts[h]) : ~aborts[h][i].ok

\* C17: an abort_request call that raises is swallowed.  The step that makes the
\* call ends the monitor task normally whatever the call did and touches
\* nothing of the handler's stream; after a failed abort the monitor task has
\* ended without an exception, and once the loop's cleanup has run the stream
\* has ended without an error.
C17_AbortFailureSwallowed ==
  /\ [](\A h \in Invs :
          AbortFailed(h)
          => /\ mon[h].st = "done"
             /\ pc[h] = "done" => (err[h] = None /\ gen[h] # "raised"))
  /\ [][\A h \in Invs :
          aborts'[h] # aborts[h]
          => /\ mon'[h] = [mon[h] EXCEPT !.st = "done"]
             /\ <<pc, gen, out, err, sofar, eng>>' = <<pc, gen, out, err, sofar, eng>>]_vars

\* A stream whose abort_request call raised and which has ended normally
\* through the cleanup, after chunks were emitted.
C17_Witness ==
  \E h \in Invs :
    /\ cfg[h].handler = "sgl_decode"
    /\ AbortFailed(h)
    /\ pc[h] = "done"
    /\ gen[h] = "returned"
    /\ err[h] = None
    /\ out[h] # <<>>

\* C18: outside prefill mode, once the engine has signalled finished on a
\* result that has an output (and whose KV timing passes the fail-fast check),
\* the stream holds one chunk per result, its last chunk is the final chunk
\* {finish_reason: "stop", token_ids: []} with ctx_request_id when the output
\* carries disaggregated params, and the chunks before it are the deltas of the
\* earlier snapshots in order.
C18_FinishedEmitsFinalChunk ==
  \A h \in Invs :
    (/\ cfg[h].handler = "trt"
     /\ cfg[h].disaggregation_mode # "PREFILL"
     /\ eng[h].fin
     /\ err[h] \notin {"IndexError", "AssertionError"})
    => /\ Len(out[h]) = eng[h].snaps
       /\ out[h][Len(out[h])].finish_reason = "stop"
       /\ out[h][Len(out[h])].token_ids = <<>>
       /\ DOMAIN out[h][Len(out[h])] \subseteq {"finish_reason", "token_ids", "ctx_request_id"}
       /\ Concat([i \in 1 .. Len(out[h]) - 1 |-> out[h][i].token_ids]) = Toks(sofar[h])

\* C19: when the last engine result had no outputs, finished or not and in
\* every mode, generate_locally has not raised and the last chunk of its stream
\* is the only {finish_reason: "error", token_ids: []} chunk.
C19_EmptyOutputsErrorChunk ==
  \A h \in Invs :
    (cfg[h].handler = "trt" /\ eng[h].empty)
    => /\ err[h] = None
       /\ pc[h] # "raised"
       /\ out[h] # <<>>
       /\ out[h][Len(out[h])] = ErrorChunk
       /\ Cardinality({ i \in 1 .. Len(out[h]) : out[h][i] = ErrorChunk }) = 1

\* C20: when the chunk of the last snapshot has been emitted, it carries the
\* finish_reason and the stop_reason the engine set on that snapshot (trtllm
\* generate_locally, the finished result included; sglang token and text loops).
C20_ReasonsCarried ==
  \A h \in Invs :
    (/\ cfg[h].handler \in {"trt", "sgl_decode"}
     /\ eng[h].snaps >= 1
     /\ Len(out[h]) = eng[h].snaps)
    => LET c == out[h][Len(out[h])] IN
       /\ eng[h].finish_reason # None
            => ("finish_reason" \in DOMAIN c /\ c.finish_reason = eng[h].finish_reason)
       /\ eng[h].stop_reason # None
            => ("stop_reason" \in DOMAIN c /\ c.stop_reason = eng[h].stop_reason)

\* C21: in a token-mode stream (sglang token loop, trtllm generate_locally) a
\* chunk with an empty token_ids list is the last chunk emitted and carries a
\* finish_reason: no chunk follows an empty one, whatever cumulative snapshots
\* the engine streams, two equal consecutive ones included.
C21_NoEmptyDeltaBeforeEnd ==
  \A h \in Invs :
    (\/ cfg[h].handler = "sgl_decode" /\ Kind(h) = "token"
     \/ cfg[h].handler = "trt")
    => \A i \in 1 .. Len(out[h]) :
         out[h][i].token_ids = <<>>
         => /\ i = Len(out[h])
            /\ "finish_reason" \in DOMAIN out[h][i]

\* C22: in token mode, when the last snapshot lacked output_ids and the loop
\* processed it (the context has not signalled), _process_token_stream has
\* raised the ValueError for the missing output_ids, with or without a
\* finish_reason on that snapshot.
C22_MissingOutputIdsRaises ==
  \A h \in Invs :
    (/\ cfg[h].handler = "sgl_decode"
     /\ Kind(h) = "token"
     /\ eng[h].lacks
     /\ ~IsCancelled(h))
    => /\ pc[h] = "raised"
       /\ err[h] = "ValueError"

\* C23: a call of calculate_kv_perf_metrics(bytes, start, end) has returned
\* (-1, -1) when bytes is 0, whatever the times; has returned the latency
\* end - start and the throughput bytes / (end - start) when bytes is not 0 and
\* start < end, (2, 512) for (1024, 0, 2); and has failed its assertion when
\* bytes is not 0 and start >= end.
C23_KvMetricsReference ==
  \A h \in Invs :
    (cfg[h].handler = "kv" /\ pc[h] # "start")
    => LET b == cfg[h].request.bytes
           s == cfg[h].request.start
           e == cfg[h].request.end
       IN  /\ b = 0 => (pc[h] = "done" /\ out[h] = << <<-1, -1>> >>)
           /\ (b # 0 /\ s < e)
                => /\ pc[h] = "done"
                   /\ Len(out[h]) = 1
                   /\ out[h][1][1] = e - s
                   /\ out[h][1][2] * (e - s) = b
           /\ (b # 0 /\ s >= e)
                => (pc[h] = "raised" /\ err[h] = "AssertionError" /\ out[h] = <<>>)
           /\ (b = 1024 /\ s = 0 /\ e = 2) => out[h] = << <<2, 512>> >>

\* The call (1024, 0, 2) has returned (2, 512).
C23_Witness ==
  \E h \in Invs :
    /\ cfg[h].handler = "kv"
    /\ cfg[h].request = [bytes |-> 1024, start |-> 0, end |-> 2]
    /\ pc[h] = "done"
    /\ out[h] = << <<2, 512>> >>

\* C24: the sampling parameters of the engine call of generate_locally are the
\* handler's defaults with exactly the supplied fields replaced: a sampling
\* option that names a parameter, and max_tokens, ignore_eos and min_tokens of
\* the stop conditions, take the caller's value whenever the caller supplied one
\* (0 and false included); every other field keeps its default.
C24_ParamsAreDefaultsOverridden ==
  \A h \in Invs :
    (/\ cfg[h].handler = "trt"
     /\ cfg[h].disaggregation_mode # "PREFILL"
     /\ call[h] # <<>>)
    => LET default == cfg[h].default_sampling_params
           opts == cfg[h].request.sampling_options
           sc == cfg[h].request.stop_conditions
           from(k) == IF k \in {"max_tokens", "ignore_eos", "min_tokens"} THEN sc ELSE opts
       IN  \A k \in DOMAIN default :
             call[h][1].sampling_params[k] =
               IF k \in DOMAIN from(k) /\ from(k)[k] # <<>> THEN from(k)[k] ELSE default[k]

\* C25: over every interleaving of generate_locally calls on one handler,
\* publisher.start() has been invoked at most once.  first_generation never
\* returns to true; a step starts the publisher only while the flag is set and
\* clears it in the same step; with a publisher, once any request has received
\* a snapshot the flag is cleared and the publisher has been started exactly
\* once; without a publisher it is never started.
C25_PublisherStartedOnce ==
  /\ [](/\ shared.starts <= 1
        /\ shared.first_generation => shared.starts = 0
        /\ \A h \in Invs :
             (cfg[h].handler = "trt" /\ eng[h].snaps >= 1)
             => IF cfg[h].publisher
                  THEN ~shared.first_generation /\ shared.starts = 1
                  ELSE shared.starts = 0)
  /\ [][/\ shared'.first_generation => shared.first_generation
        /\ shared'.starts # shared.starts
             => /\ shared'.starts = shared.starts + 1
                /\ shared.first_generation
                /\ ~shared'.first_generation]_vars

\* Two requests on a handler with a publisher are both in flight and have both
\* received a snapshot, and the publisher was started once.
C25_Witness ==
  /\ cfg[1].handler = "trt" /\ cfg[2].handler = "trt"
  /\ cfg[1].publisher
  /\ pc[1] = "yield" /\ pc[2] = "yield"
  /\ eng[1].snaps >= 1
  /\ eng[2].snaps >= 1
  /\ shared.starts = 1
  /\ ~shared.first_generation

\* C30: publisher.start() has been invoked only if some engine call on the
\* handler has delivered a snapshot, and no publish_kv_perf call was made while
\* the publisher had not been started: whenever KV statistics have been
\* published, the publisher has been started.
C30_StartAfterFirstSnapshot ==
  /\ shared.starts >= 1
       => \E h \in Invs : cfg[h].handler = "trt" /\ eng[h].snaps >= 1
  /\ ~shared.early
  /\ shared.kv # <<>> => shared.starts >= 1

\* Two requests on one handler have both finished and published their KV
\* statistics; the publisher was started once, by whichever came first.
C30_Witness ==
  /\ cfg[1].handler = "trt" /\ cfg[2].handler = "trt"
  /\ pc[1] = "done" /\ pc[2] = "done"
  /\ Len(shared.kv) = 2
  /\ shared.starts = 1

\* C26: any two prefill requests of one process, concurrent ones included, have
\* been given different bootstrap_room values; each room is a non-negative
\* integer of the range drawn from, generated once: the request yields one
\* bootstrap info and its engine call carries the same room.
C26_RoomsDistinct ==
  \A h \in Invs :
    (cfg[h].handler = "sgl_prefill" /\ out[h] # <<>>)
    => /\ Len(out[h]) = 1
       /\ out[h][1].bootstrap_room \in 0 .. MaxRoom
       /\ call[h] # <<>> => call[h][1].bootstrap_room = out[h][1].bootstrap_room
       /\ \A g \in Invs \ {h} :
            (cfg[g].handler = "sgl_prefill" /\ out[g] # <<>>)
            => out[g][1].bootstrap_room # out[h][1].bootstrap_room

\* C27: once the generate call of a request has completed (its stream has
\* returned, raised or been closed), the request's monitor task, if one was
\* created, has ended; for a prefill request too, whose monitor is created
\* inside _consume_results.
C27_NoMonitorOutlivesGenerate ==
  \A h \in Invs :
    (/\ cfg[h].handler \in {"sgl_decode", "sgl_prefill"}
     /\ gen[h] \in {"returned", "raised", "closed"})
    => (mon[h].st = "none" \/ TaskDone(mon[h]))

\* C28: a prefill handler that has yielded its bootstrap info eventually issues
\* its engine call, whatever its caller does after the first item; and its
\* consumer of the results stops only when the engine stream has ended or the
\* context has signalled.
C28_PrefillCallEventually ==
  /\ \A h \in Invs :
       (cfg[h].handler = "sgl_prefill" /\ out[h] # <<>>) ~> (call[h] # <<>>)
  /\ [](\A h \in Invs :
          (cfg[h].handler = "sgl_prefill" /\ pc[h] \in {"join", "done"})
          => /\ call[h] # <<>>
             /\ eng[h].fin \/ IsCancelled(h))

\* C29: once the context of a request has signalled stop or kill, the token and
\* text loops yield no further chunk: a step that yields a chunk starts from a
\* context that is neither stopped nor killed.  A snapshot that arrives under a
\* signalled context ends the loop without a chunk, and the stream so ended
\* holds no chunk with a finish_reason.
C29_NoChunkAfterSignal ==
  [][\A h \in Invs :
       (/\ cfg[h].handler = "sgl_decode"
        /\ cfg[h].context # <<>>
        /\ ctx[cfg[h].context[1]] \in {"stopped", "killed"})
       => /\ out'[h] = out[h]
          /\ eng'[h] # eng[h]
               => /\ pc'[h] \in {"join", "done"}
                  /\ \A i \in 1 .. Len(out'[h]) :
                       \/ "finish_reason" \notin DOMAIN out'[h][i]
                       \/ out'[h][i].finish_reason = None]_vars

\* A stream that emitted chunks, then received a snapshot after its context had
\* been stopped, and ended through the cleanup with fewer chunks than snapshots.
C29_Witness ==
  \E h \in Invs :
    /\ cfg[h].handler = "sgl_decode"
    /\ cfg[h].context # <<>>
    /\ ctx[cfg[h].context[1]] = "stopped"
    /\ pc[h] = "done"
    /\ Len(out[h]) >= 2
    /\ eng[h].snaps = Len(out[h]) + 1

\* C31: the monitor of a request calls abort_request at most once, and only
\* when the request's context has signalled stop or kill.  A request whose loop
\* and cleanup have ended while its context is still live has made no abort
\* call: its monitor, if one was created, was cancelled by the cleanup before it
\* could call, and has ended.
C31_AbortOnlyAfterSignal ==
  \A h \in Invs :
    /\ Len(aborts[h]) <= 1
    /\ aborts[h] # <<>>
         => /\ cfg[h].context # <<>>
            /\ ctx[cfg[h].context[1]] \in {"stopped", "killed"}
    /\ (cfg[h].handler \in {"sgl_decode", "sgl_prefill"}
        /\ pc[h] = "done"
        /\ (cfg[h].context = <<>> \/ ctx[cfg[h].context[1]] = "live"))
         => /\ aborts[h] = <<>>
            /\ mon[h].st # "none" => (mon[h].cancel /\ TaskDone(mon[h]))

\* A stream that ran to its end under a live context: its monitor had started
\* to wait, was cancelled by the cleanup and has ended without an abort call.
C31_Witness ==
  \E h \in Invs :
    /\ cfg[h].handler = "sgl_decode"
    /\ cfg[h].tokenizer_manager
    /\ pc[h] = "done"
    /\ eng[h].fin
    /\ out[h] # <<>>
    /\ ctx[h] = "live"
    /\ mon[h].st = "done"
    /\ mon[h].cancel
    /\ aborts[h] = <<>>

\* C32: the engine call of a prefill request carries the host, port and room of
\* the bootstrap info that request yielded, and is issued only after the yield;
\* so whenever a decode-mode handler and its paired prefill handler have both
\* issued their engine calls, the two calls carry the same host, port and room.
C32_PrefillCallUsesYieldedRoom ==
  /\ [](\A h \in Invs :
          /\ (cfg[h].handler = "sgl_prefill" /\ call[h] # <<>>)
               => /\ out[h] # <<>>
                  /\ call[h][1].bootstrap_room = out[h][1].bootstrap_room
                  /\ call[h][1].bootstrap_host = out[h][1].bootstrap_host
                  /\ call[h][1].bootstrap_port = out[h][1].bootstrap_port
          /\ (/\ cfg[h].handler = "sgl_decode"
              /\ cfg[h].serving_mode = "DECODE"
              /\ call[h] # <<>>
              /\ call[cfg[h].peer] # <<>>)
               => /\ call[h][1].bootstrap_room = call[cfg[h].peer][1].bootstrap_room
                  /\ call[h][1].bootstrap_host = call[cfg[h].peer][1].bootstrap_host
                  /\ call[h][1].bootstrap_port = call[cfg[h].peer][1].bootstrap_port)
  /\ [][\A h \in Invs :
          (cfg[h].handler = "sgl_prefill" /\ call'[h] # call[h])
          => (out[h] # <<>> /\ out'[h] = out[h])]_vars

\* A decode request whose two stages have both issued their engine calls, with
\* room MaxRoom, in either order of the two calls.
C32_Witness ==
  \E h \in Invs :
    /\ cfg[h].handler = "sgl_decode"
    /\ cfg[h].serving_mode = "DECODE"
    /\ call[h] # <<>>
    /\ call[cfg[h].peer] # <<>>
    /\ call[h][1].bootstrap_room = MaxRoom
    /\ out[h] # <<>>

\* C33: the handler's default_sampling_params always has its configured value,
\* whatever requests generate_locally has served; a request that supplies no
\* override is issued with exactly the configured defaults, before, during and
\* after a request with any sampling options and stop conditions.
C33_DefaultsUnchanged ==
  /\ shared.default_sampling_params = DefaultSamplingParams
  /\ \A h \in Invs :
       (/\ cfg[h].handler = "trt"
        /\ cfg[h].request = PlainRequest
        /\ call[h] # <<>>)
       => call[h][1].sampling_params = cfg[h].default_sampling_params

\* A request has been issued with parameters that differ from the defaults in
\* every field it can override and has streamed to its end; the request
\* without overrides has been issued too.
C33_Witness ==
  /\ cfg[1].handler = "trt" /\ cfg[2].handler = "trt"
  /\ pc[1] = "done"
  /\ call[1] # <<>>
  /\ \A k \in {"max_tokens", "temperature", "top_k", "min_tokens"} :
       call[1][1].sampling_params[k] # DefaultSamplingParams[k]
  /\ call[2] # <<>>

\* C34: when the publisher's error queue holds an error at the call of
\* generate_locally, the call has raised that error as soon as it has taken its
\* first step, with no engine call issued, the publisher not started and no
\* chunk yielded.  With no publisher, or an empty queue, the well-formed request
\* proceeds: its first step issues the engine call and raises nothing.
C34_QueuedErrorRaisedFirst ==
  \A h \in Invs :
    (cfg[h].handler = "trt" /\ "queued" \in DOMAIN cfg[h] /\ pc[h] # "start")
    => IF cfg[h].publisher /\ cfg[h].queued # None
         THEN /\ pc[h] = "raised"
              /\ err[h] = cfg[h].queued
              /\ call[h] = <<>>
              /\ out[h] = <<>>
              /\ shared.starts = 0
              /\ shared.first_generation
         ELSE /\ Len(call[h]) = 1
              /\ err[h] # "PublisherError"
              /\ pc[h] = "raised" => eng[h].snaps >= 1

\* A handler with a publisher whose queue held an error has raised it.
C34_Witness ==
  \E h \in Invs :
    /\ cfg[h].handler = "trt"
    /\ cfg[h].publisher
    /\ "queued" \in DOMAIN cfg[h]
    /\ cfg[h].queued = "PublisherError"
    /\ pc[h] = "raised"
    /\ err[h] = "PublisherError"
====
